---- MODULE Spec2Model ----
(***************************************************************************)
(* Model of quantum/deferred_exec.c: the fixed-capacity deferred executor  *)
(* table (basic_executors), its occupancy bitmap (basic_executors_free),   *)
(* the millisecond throttle (last_deferred_exec_check) and the four        *)
(* operations defer_exec, extend_deferred_exec, cancel_deferred_exec and   *)
(* deferred_exec_task.                                                     *)
(*                                                                         *)
(* uint32_t values (the clock, trigger times, delays) are represented by   *)
(* the int32_t with the same bit pattern, so that every value of the 32    *)
(* bit ring is an integer the model checker can hold: 2^32 - 1 is -1,      *)
(* 2^31 is MinInt32.  Add32 and Sub32 are addition and subtraction modulo  *)
(* 2^32 in that representation, and the cast (int32_t)x is the identity.   *)
(***************************************************************************)
EXTENDS Integers, Sequences, FiniteSets

\* ------------------------------------------------------------------
\* Program constants
\* ------------------------------------------------------------------

MAX_DEFERRED_EXECUTORS == 4

MAX_TOKEN_VALUE == 256

INVALID_DEFERRED_TOKEN == 0

\* deferred_token is an 8 bit unsigned integer: it holds 0 .. 255
DEFERRED_TOKEN_RANGE == 256

\* the largest int32_t; uint32_t arithmetic is modulo 2^32 = 2 * (MaxInt32 + 1)
MaxInt32 == 2147483647

MinInt32 == (-MaxInt32) - 1

NULL == "NULL"

\* MAX_TOKEN_VALUE / MAX_DEFERRED_EXECUTORS, the size of one slot's token band
TokenBand == MAX_TOKEN_VALUE \div MAX_DEFERRED_EXECUTORS

Slots == 0 .. (MAX_DEFERRED_EXECUTORS - 1)

\* ------------------------------------------------------------------
\* Bounds of the model
\* ------------------------------------------------------------------

\* defer_exec, extend_deferred_exec and cancel_deferred_exec calls of one run
MaxCalls == 4

\* milliseconds the clock advances in one run
MaxElapsed == 2

\* ------------------------------------------------------------------
\* 32 bit and bitmap arithmetic
\* ------------------------------------------------------------------

\* a + b modulo 2^32
Add32(a, b) ==
    IF a >= 0 /\ b >= 0 /\ a > MaxInt32 - b
    THEN (a + MinInt32) + (b + MinInt32)
    ELSE IF a < 0 /\ b < 0 /\ a < MinInt32 - b
         THEN (a - MinInt32) + (b - MinInt32)
         ELSE a + b

\* a - b modulo 2^32
Sub32(a, b) ==
    IF a >= 0 /\ b < 0 /\ a > MaxInt32 + b
    THEN (a + MinInt32) - (b - MinInt32)
    ELSE IF a < 0 /\ b >= 0 /\ a < MinInt32 + b
         THEN (a - MinInt32) - (b + MinInt32)
         ELSE a - b

\* (int32_t)TIMER_DIFF_32(a, b): the signed wraparound difference a - b
TIMER_DIFF_32(a, b) == Sub32(a, b)

\* 1 << i, for a slot index
Shl1(i) == 2 ^ i

\* (bitmap >> i) & 1
BitOf(bitmap, i) == (bitmap \div Shl1(i)) % 2

\* bitmap | (1 << i)
OrBit(bitmap, i) == IF BitOf(bitmap, i) = 1 THEN bitmap ELSE bitmap + Shl1(i)

\* bitmap & ~(1 << i)
AndNotBit(bitmap, i) == IF BitOf(bitmap, i) = 1 THEN bitmap - Shl1(i) ELSE bitmap

\* ------------------------------------------------------------------
\* Inputs of the calls
\* ------------------------------------------------------------------

\* delay_ms arguments of defer_exec and extend_deferred_exec
Delays == {0, 1, 2}

\* callback arguments of defer_exec
Callbacks == {NULL, "cb"}

\* cb_arg arguments of defer_exec
Args == {"arg"}

\* values a callback returns: 0 declines repetition, d > 0 asks for a re-arm
RetDelays == {0, 1}

\* what the call through a null callback pointer does: the firmware faults
\* and stops, the call lands on the reset vector and the firmware restarts,
\* or the call comes back with some value
NullCallOutcomes == {"fault", "reset", "return"}

\* ------------------------------------------------------------------
\* State
\* ------------------------------------------------------------------

VARIABLES
    timer,                     \* the millisecond clock read by timer_read32()
    last_deferred_exec_check,  \* static uint32_t last_deferred_exec_check
    basic_executors,           \* static deferred_executor_t basic_executors[]
    basic_executors_free,      \* static free_executors_t basic_executors_free
    halted,                    \* the firmware stopped in a fault
    result,                    \* the last call, its arguments and what it returned
    reclaimed,                 \* per slot: the token of the booking tick reclaimed last
    ncalls,                    \* defer_exec, extend and cancel calls made so far
    elapsed,                   \* milliseconds the clock advanced so far
    booking                    \* per slot: when and with what delay it was booked

vars == <<timer, last_deferred_exec_check, basic_executors, basic_executors_free,
          halted, result, reclaimed, ncalls, elapsed, booking>>

table == <<basic_executors, basic_executors_free, last_deferred_exec_check>>

\* a deferred_executor_t
Executor(token, trigger_time, callback, cb_arg) ==
    [token |-> token, trigger_time |-> trigger_time,
     callback |-> callback, cb_arg |-> cb_arg]

\* the record of a call: op, the token passed or returned, ok (the boolean
\* returned; for defer_exec: a slot was claimed; for deferred_exec_task: the
\* pass was not throttled), live (extend, cancel: the token named a live
\* booking when the call was made; defer_exec: the arguments passed the guard
\* of lines 81-83), and (deferred_exec_task) the record of every call of a
\* callback field, in order
Call(op, token, ok, live, invoked) ==
    [op |-> op, token |-> token, ok |-> ok, live |-> live, invoked |-> invoked]

NoReclaim == [token |-> INVALID_DEFERRED_TOKEN, phase |-> "none"]

\* no booking is followed in the slot
NoBooking == [state |-> "none", at |-> 0, delay |-> 0, extended |-> FALSE,
              cancelled |-> FALSE]

\* a booking made when `at` milliseconds had passed, with the delay delay_ms;
\* it is "pending" until a pass calls the callback field of its slot, "fired"
\* after; extended, cancelled: an extend or cancel call found its slot
Booking(at, delay_ms) ==
    [state |-> "pending", at |-> at, delay |-> delay_ms, extended |-> FALSE,
     cancelled |-> FALSE]

\* bit i of basic_executors_free is set
Occupied(i) == BitOf(basic_executors_free, i) = 1

\* slot i holds a booking whose callback is still to run
Live(i) == Occupied(i) /\ basic_executors[i].callback # NULL

\* the tables a long-running firmware can be in when the run starts: the
\* tokens each slot holds after earlier bookings that all fired and were
\* reclaimed, here the largest token each slot takes (slot 0 counts up to
\* 62, slot 1 to 126, slot 2 to 190, slot 3 to 254)
AgedTokens == { <<62, 126, 190, 254>> }

\* the clock value such a run starts at: 2^32 - 2, two milliseconds before
\* the 32 bit clock wraps
AgedTimes == { -2 }

\* static initialisation: everything zero
InitZero ==
    /\ timer = 0
    /\ last_deferred_exec_check = 0
    /\ basic_executors = [i \in Slots |-> Executor(0, 0, NULL, NULL)]
    /\ basic_executors_free = 0
    /\ halted = FALSE
    /\ result = Call("none", INVALID_DEFERRED_TOKEN, FALSE, FALSE, <<>>)
    /\ reclaimed = [i \in Slots |-> NoReclaim]
    /\ ncalls = 0
    /\ elapsed = 0
    /\ booking = [i \in Slots |-> NoBooking]

\* a table all of whose earlier bookings fired at the last tick and were reclaimed
InitAged ==
    /\ timer \in AgedTimes
    /\ last_deferred_exec_check = timer
    /\ \E tokens \in AgedTokens :
         basic_executors = [i \in Slots |-> Executor(tokens[i + 1], timer, NULL, NULL)]
    /\ basic_executors_free = 0
    /\ halted = FALSE
    /\ result = Call("none", INVALID_DEFERRED_TOKEN, FALSE, FALSE, <<>>)
    /\ reclaimed = [i \in Slots |-> NoReclaim]
    /\ ncalls = 0
    /\ elapsed = 0
    /\ booking = [i \in Slots |-> NoBooking]

Init == InitZero \/ InitAged

\* ------------------------------------------------------------------
\* defer_exec
\* ------------------------------------------------------------------

\* mutant: the guard forgets the zero delay
DeferRejects_NoDelayCheck(delay_ms, callback) == callback = NULL

\* the guard of defer_exec: a zero delay or an absent callback is not queued
DeferRejects(delay_ms, callback) == delay_ms = 0 \/ callback = NULL

\* mutant: the for loop stops one slot short of the table
RECURSIVE FirstUnused_Short(_, _)
FirstUnused_Short(free, i) ==
    IF i >= MAX_DEFERRED_EXECUTORS - 1 THEN MAX_DEFERRED_EXECUTORS
    ELSE IF free % 2 = 0 THEN i
    ELSE FirstUnused_Short(free \div 2, i + 1)

\* the for loop of defer_exec: the lowest index whose bit in the snapshot
\* `free` is clear, MAX_DEFERRED_EXECUTORS when there is none
RECURSIVE FirstUnused(_, _)
FirstUnused(free, i) ==
    IF i >= MAX_DEFERRED_EXECUTORS THEN MAX_DEFERRED_EXECUTORS
    ELSE IF free % 2 = 0 THEN i
    ELSE FirstUnused(free \div 2, i + 1)

\* mutant: the wrapped token is not moved off the invalid token
NextToken_NoInvalidSkip(i, token) ==
    LET incremented == (token + 1) % DEFERRED_TOKEN_RANGE
    IN  IF incremented >= (i * TokenBand) + TokenBand - 1
        THEN i * TokenBand
        ELSE incremented

\* "Work out the new token value": the token slot i takes when it is claimed
\* while holding `token`
NextToken(i, token) ==
    LET incremented == (token + 1) % DEFERRED_TOKEN_RANGE
        wrapped     == i * TokenBand
    IN  IF incremented >= (i * TokenBand) + TokenBand - 1
        THEN IF wrapped = INVALID_DEFERRED_TOKEN
             THEN INVALID_DEFERRED_TOKEN + 1
             ELSE wrapped
        ELSE incremented

\* the reclaim bookkeeping of a slot that is claimed
Rebook(r) == IF r.phase = "reclaimed" THEN [r EXCEPT !.phase = "rebooked"] ELSE NoReclaim

defer_exec_advanced(delay_ms, callback, cb_arg) ==
    IF DeferRejects(delay_ms, callback)
    THEN /\ result' = Call("defer_exec", INVALID_DEFERRED_TOKEN, FALSE, FALSE, <<>>)
         /\ UNCHANGED <<basic_executors, basic_executors_free, reclaimed>>
    ELSE LET i == FirstUnused(basic_executors_free, 0) IN
         IF i < MAX_DEFERRED_EXECUTORS
         THEN LET token == NextToken(i, basic_executors[i].token) IN
              /\ basic_executors_free' = OrBit(basic_executors_free, i)
              /\ basic_executors' = [basic_executors EXCEPT ![i] =
                     Executor(token, Add32(timer, delay_ms), callback, cb_arg)]
              /\ result' = Call("defer_exec", token, TRUE, TRUE, <<>>)
              /\ reclaimed' = [reclaimed EXCEPT ![i] = Rebook(@)]
         ELSE /\ result' = Call("defer_exec", INVALID_DEFERRED_TOKEN, FALSE, TRUE, <<>>)
              /\ UNCHANGED <<basic_executors, basic_executors_free, reclaimed>>

defer_exec ==
    /\ ~halted
    /\ ncalls < MaxCalls
    /\ \E delay_ms \in Delays, callback \in Callbacks, cb_arg \in Args :
         defer_exec_advanced(delay_ms, callback, cb_arg)
    /\ ncalls' = ncalls + 1
    /\ UNCHANGED <<timer, last_deferred_exec_check, halted, elapsed>>

\* ------------------------------------------------------------------
\* extend_deferred_exec, cancel_deferred_exec
\* ------------------------------------------------------------------

\* the tokens a caller can hold: the invalid token, the tokens in the table,
\* the token of a booking that was reclaimed, the token returned last
HeldTokens ==
    {INVALID_DEFERRED_TOKEN} \cup {basic_executors[i].token : i \in Slots}
        \cup {reclaimed[i].token : i \in Slots} \cup {result.token}

\* "the entry corresponding to the token"
IndexOf(token) == token \div TokenBand

\* the guard of extend_deferred_exec
ExtendRejects(token, delay_ms) == delay_ms = 0 \/ token = INVALID_DEFERRED_TOKEN

\* the token names a booking that is occupied and still has its callback
LiveToken(token) ==
    /\ Live(IndexOf(token))
    /\ basic_executors[IndexOf(token)].token = token

extend_deferred_exec_advanced(token, delay_ms) ==
    IF ExtendRejects(token, delay_ms)
    THEN /\ result' = Call("extend", token, FALSE, LiveToken(token), <<>>)
         /\ UNCHANGED basic_executors
    ELSE LET index == IndexOf(token) IN
         IF basic_executors[index].token = token
         THEN /\ basic_executors' = [basic_executors EXCEPT
                     ![index].trigger_time = Add32(timer, delay_ms)]
              /\ result' = Call("extend", token, TRUE, LiveToken(token), <<>>)
         ELSE /\ result' = Call("extend", token, FALSE, LiveToken(token), <<>>)
              /\ UNCHANGED basic_executors

extend_deferred_exec ==
    /\ ~halted
    /\ ncalls < MaxCalls
    /\ \E token \in HeldTokens, delay_ms \in Delays :
         extend_deferred_exec_advanced(token, delay_ms)
    /\ ncalls' = ncalls + 1
    /\ UNCHANGED <<timer, last_deferred_exec_check, basic_executors_free, halted,
                   reclaimed, elapsed>>

cancel_deferred_exec_advanced(token) ==
    LET index == IndexOf(token) IN
    IF basic_executors[index].token = token
    THEN /\ basic_executors' = [basic_executors EXCEPT
                ![index].callback = NULL, ![index].cb_arg = NULL]
         /\ result' = Call("cancel", token, TRUE, LiveToken(token), <<>>)
    ELSE /\ result' = Call("cancel", token, FALSE, LiveToken(token), <<>>)
         /\ UNCHANGED basic_executors

cancel_deferred_exec ==
    /\ ~halted
    /\ ncalls < MaxCalls
    /\ \E token \in HeldTokens : cancel_deferred_exec_advanced(token)
    /\ ncalls' = ncalls + 1
    /\ UNCHANGED <<timer, last_deferred_exec_check, basic_executors_free, halted,
                   reclaimed, elapsed>>

\* ------------------------------------------------------------------
\* deferred_exec_task
\* ------------------------------------------------------------------

\* mutant: an entry is taken as due one millisecond before its trigger time
Due_OneEarly(entry, now) ==
    /\ entry.token # INVALID_DEFERRED_TOKEN
    /\ TIMER_DIFF_32(entry.trigger_time, now) <= 1

\* "Check if we're supposed to execute this entry"
Due(entry, now) ==
    /\ entry.token # INVALID_DEFERRED_TOKEN
    /\ TIMER_DIFF_32(entry.trigger_time, now) <= 0

\* the occupied slots the pass at `now` will dispatch
DueSlots(now) == {i \in Slots : Occupied(i) /\ Due(basic_executors[i], now)}

\* the record of one call of a callback field: the slot, the entry and the
\* bitmap when the call is made, how the call ends ("ran": it returned
\* delay_ms), and the entry and the bitmap once lines 196-208 are done
Invocation(i, entry, free_before, outcome, delay_ms, after, free_after) ==
    [slot |-> i, callback |-> entry.callback, trigger_time |-> entry.trigger_time,
     free_before |-> free_before, outcome |-> outcome,
     delay |-> IF outcome = "ran" THEN delay_ms ELSE 0,
     after |-> after, free_after |-> free_after]

\* mutant: the entry is re-armed from the clock, not from its trigger time
Dispatch_RearmFromNow(st, i, delay_ms, nullcall) ==
    LET entry  == st.executors[i]
        done   ==
            IF entry.callback = NULL /\ nullcall # "return"
            THEN [st EXCEPT !.outcome = nullcall]
            ELSE IF delay_ms # 0
            THEN [st EXCEPT !.executors[i].trigger_time = Add32(timer, delay_ms)]
            ELSE [st EXCEPT
                     !.free = AndNotBit(@, i),
                     !.executors[i].callback = NULL,
                     !.executors[i].cb_arg = NULL,
                     !.reclaimed[i] = IF entry.callback # NULL
                                      THEN [token |-> entry.token, phase |-> "reclaimed"]
                                      ELSE NoReclaim]
    IN  [done EXCEPT !.invoked =
            Append(@, Invocation(i, entry, st.free, done.outcome, delay_ms,
                                 done.executors[i], done.free))]

\* mutant: a callback that returns 0 frees every slot up to its own
Dispatch_ClearsLower(st, i, delay_ms, nullcall) ==
    LET entry  == st.executors[i]
        done   ==
            IF entry.callback = NULL /\ nullcall # "return"
            THEN [st EXCEPT !.outcome = nullcall]
            ELSE IF delay_ms # 0
            THEN [st EXCEPT !.executors[i].trigger_time = Add32(@, delay_ms)]
            ELSE [st EXCEPT
                     !.free = (@ \div Shl1(i + 1)) * Shl1(i + 1),
                     !.executors[i].callback = NULL,
                     !.executors[i].cb_arg = NULL,
                     !.reclaimed[i] = IF entry.callback # NULL
                                      THEN [token |-> entry.token, phase |-> "reclaimed"]
                                      ELSE NoReclaim]
    IN  [done EXCEPT !.invoked =
            Append(@, Invocation(i, entry, st.free, done.outcome, delay_ms,
                                 done.executors[i], done.free))]

\* the body of the `if` for a due entry: the callback field of slot i is
\* called and returns delay_ms, or (a null callback) the call does what
\* `nullcall` says; then the entry is re-armed or freed
Dispatch(st, i, delay_ms, nullcall) ==
    LET entry  == st.executors[i]
        done   ==
            IF entry.callback = NULL /\ nullcall # "return"
            THEN [st EXCEPT !.outcome = nullcall]
            ELSE IF delay_ms # 0
            THEN [st EXCEPT !.executors[i].trigger_time = Add32(@, delay_ms)]
            ELSE [st EXCEPT
                     !.free = AndNotBit(@, i),
                     !.executors[i].callback = NULL,
                     !.executors[i].cb_arg = NULL,
                     !.reclaimed[i] = IF entry.callback # NULL
                                      THEN [token |-> entry.token, phase |-> "reclaimed"]
                                      ELSE NoReclaim]
    IN  [done EXCEPT !.invoked =
            Append(@, Invocation(i, entry, st.free, done.outcome, delay_ms,
                                 done.executors[i], done.free))]

\* mutant: the loop goes from the highest slot down (`free` is not shifted,
\* i counts down from the last slot)
RECURSIVE TaskLoop_Descending(_, _, _, _, _, _)
TaskLoop_Descending(st, free, i, now, rets, nullcall) ==
    LET j == (MAX_DEFERRED_EXECUTORS - 1) - i IN
    IF i >= MAX_DEFERRED_EXECUTORS \/ st.outcome # "ran" THEN st
    ELSE IF BitOf(free, j) = 1 /\ Due(st.executors[j], now)
    THEN CHOOSE out \in {TaskLoop_Descending(done, free, i + 1, now, rets, nullcall) :
                            done \in {Dispatch(st, j, rets[j], nullcall)}} : TRUE
    ELSE TaskLoop_Descending(st, free, i + 1, now, rets, nullcall)

\* the while loop: `free` is the shifted snapshot of the bitmap, i the index
RECURSIVE TaskLoop(_, _, _, _, _, _)
TaskLoop(st, free, i, now, rets, nullcall) ==
    IF free = 0 \/ st.outcome # "ran" THEN st
    ELSE IF free % 2 = 1 /\ Due(st.executors[i], now)
    THEN \* the entry is dispatched once, and the loop goes on from its result
         CHOOSE out \in {TaskLoop(done, free \div 2, i + 1, now, rets, nullcall) :
                            done \in {Dispatch(st, i, rets[i], nullcall)}} : TRUE
    ELSE TaskLoop(st, free \div 2, i + 1, now, rets, nullcall)

\* mutant: a pass in the millisecond of the last pass is let through
Throttled_SameMsPasses(now) == ~(TIMER_DIFF_32(now, last_deferred_exec_check) >= 0)

\* "Throttle only once per millisecond"
Throttled(now) == ~(TIMER_DIFF_32(now, last_deferred_exec_check) > 0)

deferred_exec_advanced_task ==
    LET now == timer IN
    IF Throttled(now)
    THEN /\ result' = Call("task", INVALID_DEFERRED_TOKEN, FALSE, FALSE, <<>>)
         /\ UNCHANGED <<timer, last_deferred_exec_check, basic_executors,
                        basic_executors_free, halted, reclaimed>>
    ELSE \E rets \in [DueSlots(now) -> RetDelays],
            nullcall \in (IF \E i \in DueSlots(now) : basic_executors[i].callback = NULL
                          THEN NullCallOutcomes ELSE {"return"}) :
         \E st \in {TaskLoop([executors |-> basic_executors,
                               free      |-> basic_executors_free,
                               reclaimed |-> reclaimed,
                               invoked   |-> <<>>,
                               outcome   |-> "ran"],
                              basic_executors_free, 0, now, rets, nullcall)} :
             /\ result' = Call("task", INVALID_DEFERRED_TOKEN, TRUE, FALSE, st.invoked)
             /\ IF st.outcome = "reset"
                THEN \* the firmware starts again: statics zeroed, clock restarted
                     /\ timer' = 0
                     /\ last_deferred_exec_check' = 0
                     /\ basic_executors' = [i \in Slots |-> Executor(0, 0, NULL, NULL)]
                     /\ basic_executors_free' = 0
                     /\ reclaimed' = [i \in Slots |-> NoReclaim]
                     /\ halted' = FALSE
                ELSE /\ timer' = timer
                     /\ last_deferred_exec_check' = now
                     /\ basic_executors' = st.executors
                     /\ basic_executors_free' = st.free
                     /\ reclaimed' = st.reclaimed
                     /\ halted' = (st.outcome = "fault")

deferred_exec_task ==
    /\ ~halted
    /\ deferred_exec_advanced_task
    /\ UNCHANGED <<ncalls, elapsed>>

\* ------------------------------------------------------------------
\* The clock and the firmware
\* ------------------------------------------------------------------

\* a millisecond passes
timer_tick ==
    /\ ~halted
    /\ elapsed < MaxElapsed
    /\ timer' = Add32(timer, 1)
    /\ elapsed' = elapsed + 1
    /\ UNCHANGED <<last_deferred_exec_check, basic_executors, basic_executors_free,
                   halted, result, reclaimed, ncalls>>

\* the calls, with no booking followed
call_defer_exec == defer_exec /\ UNCHANGED booking

call_extend_deferred_exec == extend_deferred_exec /\ UNCHANGED booking

call_cancel_deferred_exec == cancel_deferred_exec /\ UNCHANGED booking

call_deferred_exec_task == deferred_exec_task /\ UNCHANGED booking

clock == timer_tick /\ UNCHANGED booking

Next ==
    \/ call_defer_exec
    \/ call_extend_deferred_exec
    \/ call_cancel_deferred_exec
    \/ call_deferred_exec_task
    \/ clock

Spec == Init /\ [][Next]_vars

\* ------------------------------------------------------------------
\* The calls with every booking followed from defer_exec to its callback
\* ------------------------------------------------------------------

\* delays over the uint32_t range: 2, 2^31 - 1 and 2^31
WideDelays == {2, MaxInt32, MinInt32}

\* the delay extend_deferred_exec is called with where bookings are followed
ExtendDelays == {1}

\* defer_exec with any uint32_t delay; the slot whose bit the call set holds
\* the new booking
booked_defer_exec ==
    /\ ~halted
    /\ ncalls < MaxCalls
    /\ \E delay_ms \in WideDelays, callback \in Callbacks, cb_arg \in Args :
         /\ defer_exec_advanced(delay_ms, callback, cb_arg)
         /\ booking' = [i \in Slots |->
                IF BitOf(basic_executors_free', i) # BitOf(basic_executors_free, i)
                THEN Booking(elapsed, delay_ms)
                ELSE booking[i]]
    /\ ncalls' = ncalls + 1
    /\ UNCHANGED <<timer, last_deferred_exec_check, halted, elapsed>>

\* extend_deferred_exec; the slot the call wrote to has its booking extended
booked_extend_deferred_exec ==
    /\ ~halted
    /\ ncalls < MaxCalls
    /\ \E token \in HeldTokens, delay_ms \in ExtendDelays :
         extend_deferred_exec_advanced(token, delay_ms)
    /\ ncalls' = ncalls + 1
    /\ UNCHANGED <<timer, last_deferred_exec_check, basic_executors_free, halted,
                   reclaimed, elapsed>>
    /\ booking' = [i \in Slots |->
           IF result'.ok /\ i = IndexOf(result'.token) /\ booking[i].state # "none"
           THEN [booking[i] EXCEPT !.extended = TRUE]
           ELSE booking[i]]

\* cancel_deferred_exec; the slot the call wrote to has its booking cancelled
booked_cancel_deferred_exec ==
    /\ cancel_deferred_exec
    /\ booking' = [i \in Slots |->
           IF result'.ok /\ i = IndexOf(result'.token) /\ booking[i].state # "none"
           THEN [booking[i] EXCEPT !.cancelled = TRUE]
           ELSE booking[i]]

\* deferred_exec_task; the bookings of the slots whose callback field the
\* pass called have fired, and a reset of the firmware forgets every booking
booked_deferred_exec_task ==
    /\ deferred_exec_task
    /\ booking' =
           IF \E k \in DOMAIN result'.invoked : result'.invoked[k].outcome = "reset"
           THEN [i \in Slots |-> NoBooking]
           ELSE [i \in Slots |->
                    IF /\ booking[i].state = "pending"
                       /\ \E k \in DOMAIN result'.invoked : result'.invoked[k].slot = i
                    THEN [booking[i] EXCEPT !.state = "fired"]
                    ELSE booking[i]]

booked_clock == timer_tick /\ UNCHANGED booking

\* defer_exec, extend_deferred_exec and the main loop
NextBooked ==
    \/ booked_defer_exec
    \/ booked_extend_deferred_exec
    \/ booked_deferred_exec_task
    \/ booked_clock

\* a firmware that has run without a booking until two milliseconds before
\* its 32 bit clock wraps
InitLate ==
    /\ timer \in AgedTimes
    /\ last_deferred_exec_check = timer
    /\ basic_executors = [i \in Slots |-> Executor(0, 0, NULL, NULL)]
    /\ basic_executors_free = 0
    /\ halted = FALSE
    /\ result = Call("none", INVALID_DEFERRED_TOKEN, FALSE, FALSE, <<>>)
    /\ reclaimed = [i \in Slots |-> NoReclaim]
    /\ ncalls = 0
    /\ elapsed = 0
    /\ booking = [i \in Slots |-> NoBooking]

SpecBooked == InitLate /\ [][NextBooked]_vars

\* every call of the API and the main loop
NextBookedAll ==
    \/ booked_defer_exec
    \/ booked_extend_deferred_exec
    \/ booked_cancel_deferred_exec
    \/ booked_deferred_exec_task
    \/ booked_clock

\* the host loop keeps calling deferred_exec_task and the clock keeps running
FairSpecBooked ==
    /\ InitZero
    /\ [][NextBookedAll]_vars
    /\ WF_vars(booked_deferred_exec_task)
    /\ WF_vars(booked_clock)

\* the firmware started from its static initialisation
SpecZero == InitZero /\ [][Next]_vars

\* the host loop keeps calling deferred_exec_task and the clock keeps running
FairSpec ==
    InitZero /\ [][Next]_vars /\ WF_vars(call_deferred_exec_task) /\ WF_vars(clock)

\* the table after defer_exec(2, cb, arg) was called three times on the
\* zero-initialised table: slots 0..2 are booked, slot 3 is not
InitBusy ==
    /\ timer = 0
    /\ last_deferred_exec_check = 0
    /\ basic_executors = [i \in Slots |->
            IF i < MAX_DEFERRED_EXECUTORS - 1
            THEN Executor(NextToken(i, 0), Add32(0, 2), "cb", "arg")
            ELSE Executor(0, 0, NULL, NULL)]
    /\ basic_executors_free = 7
    /\ halted = FALSE
    /\ result = Call("defer_exec", NextToken(MAX_DEFERRED_EXECUTORS - 2, 0), TRUE, TRUE, <<>>)
    /\ reclaimed = [i \in Slots |-> NoReclaim]
    /\ ncalls = 0
    /\ elapsed = 0
    /\ booking = [i \in Slots |-> NoBooking]

\* the firmware with three bookings pending
SpecBusy == InitBusy /\ [][Next]_vars

\* ------------------------------------------------------------------
\* Claims
\* ------------------------------------------------------------------

\* C1: no two slots whose occupied bit is set hold the same token.
C1_TokenUnique ==
    \A i, j \in Slots :
        (i # j /\ Occupied(i) /\ Occupied(j))
            => basic_executors[i].token # basic_executors[j].token

\* C8: every occupied slot i holds a token of band i,
\* [i * band, i * band + band - 1], so that token / band = i.
C8_BandInvariant ==
    \A i \in Slots :
        Occupied(i) =>
            /\ basic_executors[i].token >= i * TokenBand
            /\ basic_executors[i].token <= (i * TokenBand) + TokenBand - 1
            /\ IndexOf(basic_executors[i].token) = i

\* the tokens slot i can hold: 0 (never booked) up to the last token below
\* the wrap test of line 94
SlotTokens(i) == 0 .. ((i * TokenBand) + TokenBand - 2)

\* for any number of reuses: claiming slot i while it holds one of its tokens
\* gives one of its tokens again, never the invalid one (255 + 1 is not reached)
TokenClosure ==
    \A i \in Slots : \A t \in SlotTokens(i) :
        /\ NextToken(i, t) \in SlotTokens(i)
        /\ NextToken(i, t) # INVALID_DEFERRED_TOKEN

\* C9: a token returned by a successful defer_exec is never the invalid
\* token, and every occupied slot holds a token other than the invalid token,
\* for any number of reuses of the slot.
C9_TokenNeverInvalid ==
    /\ (result.op = "defer_exec" /\ result.ok) => result.token # INVALID_DEFERRED_TOKEN
    /\ \A i \in Slots : Occupied(i) => basic_executors[i].token # INVALID_DEFERRED_TOKEN
    /\ \A i \in Slots : basic_executors[i].token \in SlotTokens(i)
    /\ TokenClosure

\* C9 witness: slot 0 and slot 3 are occupied with the tokens they take when
\* their band wraps (from 62 and from 254).
C9_Witness ==
    /\ Occupied(0) /\ basic_executors[0].token = 1
    /\ Occupied(3) /\ basic_executors[3].token = 3 * TokenBand
    /\ result.op = "defer_exec" /\ result.ok

\* a booking of slot i with token t was reclaimed by the task after its
\* callback returned 0, and slot i was booked again since
StaleRebooked(t) ==
    \E i \in Slots :
        /\ reclaimed[i].phase = "rebooked"
        /\ reclaimed[i].token = t
        /\ Occupied(i)

\* a booking of slot i with token t was reclaimed by the task after its
\* callback returned 0, and slot i is unoccupied since
StaleReclaimed(t) ==
    \E i \in Slots :
        /\ reclaimed[i].phase = "reclaimed"
        /\ reclaimed[i].token = t
        /\ ~Occupied(i)

\* the step leaves trigger time, callback and argument of every live booking alone
LiveBookingsKept ==
    \A j \in Slots :
        Live(j) =>
            /\ basic_executors'[j].trigger_time = basic_executors[j].trigger_time
            /\ basic_executors'[j].callback = basic_executors[j].callback
            /\ basic_executors'[j].cb_arg = basic_executors[j].cb_arg

\* C2: once the slot of a reclaimed booking is booked again, extend and
\* cancel with the old token return false and change no live booking.
C2_StaleAfterReuse ==
    [][\A t \in HeldTokens :
          (StaleRebooked(t) /\
             (cancel_deferred_exec_advanced(t)
                \/ \E d \in Delays : extend_deferred_exec_advanced(t, d)))
          => (~result'.ok /\ LiveBookingsKept)]_vars

\* C3: the task never calls an absent callback: every callback field it
\* called in a pass was present.
C3_NoNullCallback ==
    \A k \in DOMAIN result.invoked : result.invoked[k].callback # NULL

\* the last call was a successful cancel of the live booking of slot i
CancelledLive(i) ==
    /\ result.op = "cancel" /\ result.ok /\ result.live
    /\ IndexOf(result.token) = i

\* C4: after cancel succeeds on a live booking, its slot eventually becomes
\* unoccupied, as long as the clock advances (the model's clock stops at
\* MaxElapsed).
C4_CancelledSlotFreed ==
    \A i \in Slots :
        [](CancelledLive(i) => <>(~Occupied(i) \/ elapsed = MaxElapsed))

\* C5: when cancel(t) returned true for a live token, a second cancel(t)
\* made right after it, before the task reclaimed the slot, returns false.
C5_CancelOnce ==
    [][(/\ result.op = "cancel" /\ result.ok /\ result.live
        /\ Occupied(IndexOf(result.token))
        /\ cancel_deferred_exec_advanced(result.token))
       => ~result'.ok]_vars

\* C6: for the token of a booking that fired, returned 0 and was reclaimed
\* (slot unoccupied, not booked again), extend and cancel return false and
\* leave the whole table unchanged.
C6_StaleAfterReclaim ==
    [][\A t \in HeldTokens :
          (StaleReclaimed(t) /\
             (cancel_deferred_exec_advanced(t)
                \/ \E d \in Delays : extend_deferred_exec_advanced(t, d)))
          => (~result'.ok /\ UNCHANGED table)]_vars

\* C7: cancel and extend with the invalid token return false in every state.
C7_InvalidTokenRejected ==
    (result.op \in {"cancel", "extend"} /\ result.token = INVALID_DEFERRED_TOKEN)
        => ~result.ok

\* C10: defer_exec with a zero delay or an absent callback returns the
\* invalid token and leaves bitmap and every slot unchanged.
C10_RejectLeavesTable ==
    [][\A d \in Delays, cb \in Callbacks, arg \in Args :
          ((d = 0 \/ cb = NULL) /\ defer_exec_advanced(d, cb, arg))
          => (/\ result'.token = INVALID_DEFERRED_TOKEN
              /\ ~result'.ok
              /\ UNCHANGED table)]_vars

\* C10 witness: a defer_exec call was rejected for its arguments (the table
\* holds bookings and has unused slots).
C10_Witness ==
    /\ result.op = "defer_exec" /\ ~result.ok
    /\ result.token = INVALID_DEFERRED_TOKEN
    /\ Occupied(0) /\ ~Occupied(1)

\* every slot is occupied
TableFull == \A i \in Slots : Occupied(i)

\* C11: a defer_exec with a delay other than 0 and a callback returns the
\* invalid token exactly when every slot is occupied; then the table is left
\* as it was; otherwise the call claims a slot and sets exactly one more
\* occupied bit.
C11_FailsOnlyWhenFull ==
    [][\A delay_ms \in Delays \ {0}, callback \in Callbacks \ {NULL}, cb_arg \in Args :
          (call_defer_exec /\ defer_exec_advanced(delay_ms, callback, cb_arg))
              => /\ (result'.token = INVALID_DEFERRED_TOKEN) <=> TableFull
                 /\ TableFull => UNCHANGED table
                 /\ ~TableFull =>
                        /\ result'.ok
                        /\ \E i \in Slots :
                              /\ ~Occupied(i)
                              /\ basic_executors_free' = OrBit(basic_executors_free, i)]_vars

\* C11 witness: a defer_exec whose arguments passed the guard found every
\* slot occupied and returned the invalid token.
C11_Witness ==
    /\ result.op = "defer_exec" /\ result.live /\ ~result.ok
    /\ result.token = INVALID_DEFERRED_TOKEN
    /\ TableFull

\* C12: extend_deferred_exec(token, d) with d other than 0, called with the
\* token of a booking that is live and not yet due, returns true and sets
\* the trigger time of that booking's slot to the clock plus d; the rest of
\* that slot, every other slot, the bitmap and last_deferred_exec_check stay
\* as they were.
C12_ExtendSetsTrigger ==
    [][\A i \in Slots, delay_ms \in Delays \ {0} :
          (/\ Live(i)
           /\ ~Due(basic_executors[i], timer)
           /\ call_extend_deferred_exec
           /\ extend_deferred_exec_advanced(basic_executors[i].token, delay_ms))
              => /\ result'.ok
                 /\ basic_executors' = [basic_executors EXCEPT
                        ![i].trigger_time = Add32(timer, delay_ms)]
                 /\ UNCHANGED <<basic_executors_free, last_deferred_exec_check>>]_vars

\* the calls of a callback made by the pass that just ran, in order
Invoked == IF result.op = "task" THEN result.invoked ELSE <<>>

\* the pass that just ran went through the whole table: no call of a callback
\* field ended in a reset of the firmware
PassCompleted == \A k \in DOMAIN Invoked : Invoked[k].outcome # "reset"

\* C13: when a pass calls a due callback and it returns d other than 0, the
\* slot stays occupied with the token, callback and argument it had, and its
\* trigger time becomes the trigger time it had plus d (mod 2^32), whatever
\* the clock reads at the pass.
C13_RearmFromTrigger ==
    [][call_deferred_exec_task =>
          \A k \in DOMAIN result'.invoked :
              LET call == result'.invoked[k]
                  before == basic_executors[call.slot]
              IN  (call.outcome = "ran" /\ call.delay # 0) =>
                      /\ call.after = [before EXCEPT
                             !.trigger_time = Add32(before.trigger_time, call.delay)]
                      /\ BitOf(call.free_after, call.slot) = 1
                      /\ PassCompleted' =>
                             /\ basic_executors'[call.slot] = call.after
                             /\ BitOf(basic_executors_free', call.slot) = 1]_vars

\* C13 witness: a pass that came late (the clock is past the trigger time)
\* called a callback that returned d, and the slot now triggers at its
\* previous trigger time plus d, which is not the clock plus d.
C13_Witness ==
    \E k \in DOMAIN Invoked :
        LET call == Invoked[k] IN
        /\ call.outcome = "ran" /\ call.delay # 0 /\ call.callback # NULL
        /\ call.trigger_time # timer
        /\ Occupied(call.slot)
        /\ basic_executors[call.slot].trigger_time = Add32(call.trigger_time, call.delay)
        /\ basic_executors[call.slot].trigger_time # Add32(timer, call.delay)

\* C14: when a pass calls a due callback and it returns 0, the slot's
\* occupied bit, callback and argument are cleared before the pass goes on,
\* no other occupied bit changes with it, and a defer_exec with a delay and a
\* callback can claim the slot (it claims the lowest unoccupied slot, which is
\* this one or a lower one).
C14_ReturnZeroFreesSlot ==
    [][call_deferred_exec_task =>
          \A k \in DOMAIN result'.invoked :
              LET call == result'.invoked[k] IN
              (call.outcome = "ran" /\ call.delay = 0) =>
                  /\ BitOf(call.free_before, call.slot) = 1
                  /\ BitOf(call.free_after, call.slot) = 0
                  /\ \A j \in Slots \ {call.slot} :
                        BitOf(call.free_after, j) = BitOf(call.free_before, j)
                  /\ call.after.callback = NULL
                  /\ call.after.cb_arg = NULL
                  /\ call.after.token = basic_executors[call.slot].token
                  /\ FirstUnused(call.free_after, 0) <= call.slot
                  /\ (\A j \in Slots : j < call.slot => BitOf(call.free_after, j) = 1)
                        => FirstUnused(call.free_after, 0) = call.slot
                  /\ PassCompleted' =>
                        /\ BitOf(basic_executors_free', call.slot) = 0
                        /\ basic_executors'[call.slot] = call.after]_vars

\* C14 witness: a pass called the callback of slot 1, which returned 0, while
\* slot 0 and slot 2 were occupied; slot 1 is now free and the other two are
\* still occupied, so the next defer_exec claims slot 1.
C14_Witness ==
    /\ PassCompleted
    /\ \E k \in DOMAIN Invoked :
          /\ Invoked[k].slot = 1 /\ Invoked[k].outcome = "ran" /\ Invoked[k].delay = 0
          /\ Invoked[k].callback # NULL
    /\ Occupied(0) /\ ~Occupied(1) /\ Occupied(2)
    /\ FirstUnused(basic_executors_free, 0) = 1

\* C15: a pass that is not throttled calls the callback of exactly the
\* occupied slots whose trigger time is due at the clock value of the pass,
\* each once, and of no other slot.
C15_ExactlyTheDueSlots ==
    [][(call_deferred_exec_task /\ ~Throttled(timer)) =>
          /\ {result'.invoked[k].slot : k \in DOMAIN result'.invoked} = DueSlots(timer)
          /\ \A k, l \in DOMAIN result'.invoked :
                result'.invoked[k].slot = result'.invoked[l].slot => k = l]_vars

\* fewer than delay_ms milliseconds have passed since the booking was made
\* (delay_ms is a uint32_t: a negative value here stands for 2^31 and above,
\* which is more than the milliseconds a run counts)
FewerThan(passed, delay_ms) == delay_ms < 0 \/ passed < delay_ms

\* the bookings a pass fires early: it calls the callback field of the slot
\* while fewer milliseconds than the booked delay have passed, the booking
\* not having been extended
FiredEarly(i) ==
    /\ booking[i].state = "pending"
    /\ ~booking[i].extended
    /\ FewerThan(elapsed - booking[i].at, booking[i].delay)
    /\ \E k \in DOMAIN result'.invoked : result'.invoked[k].slot = i

\* C16 as stated: for a booking made with any delay d of the uint32_t range
\* and not extended, no pass calls its callback while fewer than d
\* milliseconds have passed since the booking was made.
C16_NoEarlyFiring ==
    [][booked_deferred_exec_task => \A i \in Slots : ~FiredEarly(i)]_vars

\* C16 amended: the same for every delay d with 0 < d < 2^31, clock wrap
\* between booking and trigger time included.
C16_NoEarlyFiringBelowHalfRange ==
    [][booked_deferred_exec_task =>
          \A i \in Slots : booking[i].delay > 0 => ~FiredEarly(i)]_vars

\* C16 witness: a booking made with delay 2 just before the clock wrapped
\* (its trigger time lies past the wrap) was passed over by a pass one
\* millisecond later and fired when 2 milliseconds had passed, while a
\* booking with delay 2^31 - 1 is still pending.
C16_Witness ==
    /\ elapsed = 2
    /\ \E i \in Slots :
          /\ booking[i].state = "fired" /\ booking[i].delay = 2 /\ booking[i].at = 0
          /\ ~booking[i].extended /\ ~booking[i].cancelled
          /\ \E k \in DOMAIN Invoked :
                /\ Invoked[k].slot = i /\ Invoked[k].outcome = "ran"
                /\ Invoked[k].trigger_time = 0
    /\ \E j \in Slots :
          /\ booking[j].state = "pending" /\ booking[j].delay = MaxInt32
          /\ Live(j)

\* C17: a deferred_exec_task call at a clock value whose signed difference
\* to last_deferred_exec_check is not above 0 calls no callback and leaves the
\* bitmap, every slot and last_deferred_exec_check as they were; a call that
\* passes leaves last_deferred_exec_check equal to the clock.
C17_ThrottledPassIsNoOp ==
    [][call_deferred_exec_task =>
          IF TIMER_DIFF_32(timer, last_deferred_exec_check) > 0
          THEN /\ result'.ok
               /\ last_deferred_exec_check' = timer'
          ELSE /\ ~result'.ok
               /\ result'.invoked = <<>>
               /\ UNCHANGED table]_vars

\* C17 witness: a deferred_exec_task was called again in the millisecond of a
\* pass while an occupied slot was due (the pass came late and re-armed it to
\* a trigger time not after the clock); the call was throttled.
C17_Witness ==
    /\ result.op = "task" /\ ~result.ok
    /\ last_deferred_exec_check = timer
    /\ elapsed > 0
    /\ DueSlots(timer) # {}

\* C18: within one pass the callbacks are called in strictly ascending slot
\* order, and what the call for a slot leaves behind (the entry re-armed, or
\* the bit cleared) is in place when the call for the next slot is made.
C18_AscendingOrder ==
    [][call_deferred_exec_task =>
          /\ \A k, l \in DOMAIN result'.invoked :
                k < l => result'.invoked[k].slot < result'.invoked[l].slot
          /\ \A k \in DOMAIN result'.invoked :
                result'.invoked[k].free_before =
                    IF k = 1 THEN basic_executors_free
                    ELSE result'.invoked[k - 1].free_after
          /\ \A k \in DOMAIN result'.invoked :
                PassCompleted' =>
                    /\ basic_executors'[result'.invoked[k].slot] = result'.invoked[k].after
                    /\ k = Len(result'.invoked) =>
                          basic_executors_free' = result'.invoked[k].free_after]_vars

\* C18 witness: one pass called the callbacks of slot 0 and slot 2, slot 0
\* first; slot 0 returned 0 and its bit was clear when slot 2 was called.
C18_Witness ==
    /\ Len(Invoked) = 2
    /\ Invoked[1].slot = 0 /\ Invoked[2].slot = 2
    /\ Invoked[1].outcome = "ran" /\ Invoked[1].delay = 0
    /\ BitOf(Invoked[1].free_before, 0) = 1
    /\ BitOf(Invoked[2].free_before, 0) = 0
    /\ Invoked[2].outcome = "ran"

\* the successor of token p of slot i as the rotation is described: p + 1,
\* and from the last value of band i the band start, or 1 for band 0
BandSuccessor(i, p) ==
    IF p = (i * TokenBand) + TokenBand - 1
    THEN IF i * TokenBand = INVALID_DEFERRED_TOKEN
         THEN INVALID_DEFERRED_TOKEN + 1
         ELSE i * TokenBand
    ELSE p + 1

\* C19: a defer_exec that claims slot i replaces the slot's token p by p + 1,
\* or, when p is the last value of band i, by the band start (1 for band 0).
C19_TokenSuccessor ==
    [][(call_defer_exec /\ result'.ok) =>
          \A i \in Slots :
              BitOf(basic_executors_free', i) # BitOf(basic_executors_free, i) =>
                  /\ basic_executors'[i].token = BandSuccessor(i, basic_executors[i].token)
                  /\ result'.token = basic_executors'[i].token]_vars

\* the booking of slot i is waiting for its callback, and no extend or cancel
\* call has written to its slot
Untouched(i) ==
    /\ booking[i].state = "pending"
    /\ ~booking[i].extended
    /\ ~booking[i].cancelled

\* the run has counted its last millisecond before the delay of the booking
\* of slot i has passed
RunEndsBefore(i) ==
    /\ elapsed = MaxElapsed
    /\ FewerThan(elapsed - booking[i].at, booking[i].delay)

\* C20: with deferred_exec_task called again and again and the clock
\* advancing, every booking whose slot no extend or cancel call is aimed at
\* is eventually fired by a pass, whatever calls are made for other slots.
C20_EventuallyFired ==
    \A i \in Slots :
        [](Untouched(i) => <>(~Untouched(i) \/ RunEndsBefore(i)))
====
